---- MODULE Spec2Model ----
(***************************************************************************)
(* NexTalk: retrieval-augmented chat service.                              *)
(*                                                                         *)
(* The module models                                                       *)
(*   - the vector store (app/rag/vector_store.py): add_chunks and search   *)
(*     with its Chroma 'where' filter,                                     *)
(*   - the history store (app/rag/memory_manager.py): the messages table,  *)
(*     add_message (insert + trim), add_exchange, get_chat_history and     *)
(*     clear_history,                                                      *)
(*   - the prompt builders (app/rag/retrieval_chain.py),                   *)
(*   - the decision engine get_answer (app/rag/pipeline.py),               *)
(*   - the chunker chunk_text (app/rag/ingestion.py),                      *)
(*   - the generator wrapper generate_response (app/rag/llm_engine.py).    *)
(*                                                                         *)
(* The specifications share the variables:                                 *)
(*   Spec        ingestion and get_answer calls, the generator answering   *)
(*   SpecGen     ingestion and get_answer calls, the generator failing or  *)
(*               not                                                       *)
(*   SpecSearch  ingestion and direct calls of VectorStore.search          *)
(*   SpecMemory  sequential add_message / get_chat_history / clear_history *)
(*   SpecConc    concurrent add_message calls on separate connections      *)
(*   SpecChunk   one chunk_text call, statement by statement               *)
(*   SpecCalc    calls of the normalisation helpers on arbitrary values    *)
(***************************************************************************)
EXTENDS Integers, Sequences, FiniteSets, TLC

VARIABLES
    collection,   \* the Chroma collection: sequence of stored chunks (insertion order)
    messages,     \* committed rows of the SQLite table messages, ascending id
    seq,          \* sqlite_sequence of messages: the largest id ever assigned
    last,         \* the last completed search / get_answer call, with what it did
    nAnswers,     \* number of get_answer calls made so far
    recorded,     \* per user: every (role, content) recorded since the last clear
    pc,           \* per connection: position inside add_message
    txn,          \* per connection: the uncommitted working copy of its transaction
    arg,          \* per connection: the arguments of the running add_message
    lock,         \* the connection holding SQLite's write lock, or NoneStr
    committed,    \* ids of the rows whose insert has been committed, in commit order
    chunker,      \* the running chunk_text call: its arguments, locals and position
    calc          \* the last call of a normalisation helper: its argument and result

vars == <<collection, messages, seq, last, nAnswers, recorded, pc, txn, arg, lock, committed,
          chunker, calc>>

----------------------------------------------------------------------------
(* Bounds of the model *)

\* chunks the collection may hold
MaxChunks == 2
\* get_answer calls in one behaviour of Spec
MaxAnswers == 1
\* add_message calls in one behaviour of SpecMemory
MaxRecords == 7
\* add_message calls started in one behaviour of SpecConc
MaxWrites == 9
\* characters of the text given to chunk_text
MaxTextLen == 4
\* largest chunk_size given to chunk_text
MaxChunkSize == 3
\* largest integer given as top_k in SpecCalc (the smallest is -2)
MaxTopKArg == 22
\* get_answer calls that reach add_exchange in one behaviour of SpecExch
MaxExchanges == 3
\* add_message calls in one behaviour of SpecPartition
MaxTurns == 8

----------------------------------------------------------------------------
(* Values *)

\* Python's None where a string is expected
NoneStr == "<None>"

\* Optional[List[str]]: None, or a list
NoneList == [some |-> FALSE, val |-> <<>>]
\* Optional[int]: None, or an integer
NoneInt == [some |-> FALSE, val |-> 0]
Some(v) == [some |-> TRUE, val |-> v]

\* Python values of the types a caller may pass where an int is expected:
\* None, an int, a str, and a float (PyFloat(h) is the float h / 2)
PyNone == [type |-> "NoneType", num |-> 0, str |-> ""]
PyInt(n) == [type |-> "int", num |-> n, str |-> ""]
PyStr(t) == [type |-> "str", num |-> 0, str |-> t]
PyFloat(h) == [type |-> "float", num |-> h, str |-> ""]

Users == {"u1", "u2"}
DocIds == {"d1", "d2"}
Contents == {"c1", "c2"}
Questions == {"Summarize", "hi"}
Modes == {"auto", "rag", "chat"}

Min(a, b) == IF a < b THEN a ELSE b
Max(a, b) == IF a > b THEN a ELSE b
Range(s) == {s[i] : i \in 1..Len(s)}
Reverse(s) == [i \in 1..Len(s) |-> s[Len(s) + 1 - i]]
\* Python's s[:n] for n >= 0
Prefix(s, n) == SubSeq(s, 1, Min(n, Len(s)))
\* Python's s[-n:] for n > 0
Suffix(s, n) == SubSeq(s, Max(1, Len(s) - n + 1), Len(s))

----------------------------------------------------------------------------
(* app/config.py *)

MAX_MEMORY_MESSAGES == 6

\* 0.30 as a fraction
RAG_SCORE_THRESHOLD == [num |-> 30, den |-> 100]

\* a >= b on fractions with positive denominators
ScoreGeq(a, b) == a.num * b.den >= b.num * a.den

----------------------------------------------------------------------------
(* app/rag/memory_manager.py: the table messages(id, user_id, role, content) *)
(* (created_at is written and never read: it is left out of the rows)        *)

\* ORDER BY id DESC over the rows at positions I
RECURSIVE OrderByIdDesc(_, _)
OrderByIdDesc(rows, I) ==
    IF I = {} THEN <<>>
    ELSE LET m == CHOOSE i \in I : \A j \in I : rows[j].id <= rows[i].id
         IN  <<rows[m]>> \o OrderByIdDesc(rows, I \ {m})

\* SELECT ... FROM messages WHERE user_id = ? ORDER BY id DESC LIMIT ?
SelectRecent(rows, u, limit) ==
    Prefix(OrderByIdDesc(rows, {i \in 1..Len(rows) : rows[i].user_id = u}), limit)

\* INSERT INTO messages(user_id, role, content, created_at): id is AUTOINCREMENT
InsertRow(rows, id, u, role, content) ==
    Append(rows, [id |-> id, user_id |-> u, role |-> role, content |-> content])

\* the trim without its user_id conditions: the most recent rows of the table kept
\* (mutant of TrimRows)
TrimRows_Global(rows, u) ==
    LET recent == Prefix(OrderByIdDesc(rows, 1..Len(rows)), MAX_MEMORY_MESSAGES)
        keep == {recent[i].id : i \in 1..Len(recent)}
    IN  SelectSeq(rows, LAMBDA r : r.id \in keep)

\* DELETE FROM messages WHERE user_id = ? AND id NOT IN (the MAX_MEMORY_MESSAGES most recent)
TrimRows(rows, u) ==
    LET recent == SelectRecent(rows, u, MAX_MEMORY_MESSAGES)
        keep == {recent[i].id : i \in 1..Len(recent)}
    IN  SelectSeq(rows, LAMBDA r : ~(r.user_id = u /\ r.id \notin keep))

\* add_message in one transaction, on db = [rows, seq]
add_message(db, u, role, content) ==
    [rows |-> TrimRows(InsertRow(db.rows, db.seq + 1, u, role, content), u),
     seq  |-> db.seq + 1]

\* only the user message recorded (mutant of add_exchange)
add_exchange_UserOnly(db, u, user_message, assistant_message) ==
    add_message(db, u, "user", user_message)

add_exchange(db, u, user_message, assistant_message) ==
    add_message(add_message(db, u, "user", user_message), u, "assistant", assistant_message)

\* the rows left most-recent-first (mutant of Chronological)
Chronological_NoReverse(rows) == rows

\* rows.reverse(): chronological order
Chronological(rows) == Reverse(rows)

\* get_chat_history(user_id, limit=None)
get_chat_history(rows, u, limit) ==
    LET lim == IF limit.some /\ limit.val # 0 THEN limit.val ELSE MAX_MEMORY_MESSAGES
        rs  == Chronological(SelectRecent(rows, u, lim))
    IN  [i \in 1..Len(rs) |-> [role |-> rs[i].role, content |-> rs[i].content]]

\* only the rows of role "user" deleted (mutant of clear_history)
clear_history_UserRowsOnly(rows, u) ==
    SelectSeq(rows, LAMBDA r : ~(r.user_id = u /\ r.role = "user"))

\* DELETE FROM messages WHERE user_id = ?
clear_history(rows, u) == SelectSeq(rows, LAMBDA r : r.user_id # u)

----------------------------------------------------------------------------
(* app/rag/embedding_service.py and the index metric.                      *)
(* The embedder is an external model: here a text is embedded on a line,   *)
(* and the index distance is Chroma's default squared L2 distance.         *)

embed_text(text) ==
    CASE text = "Summarize" -> 0
      [] text = "c1"        -> 1
      [] text = "c2"        -> 2
      [] text = "hi"        -> 3
      [] OTHER              -> 9

Distance(a, b) == (a - b) * (a - b)

----------------------------------------------------------------------------
(* app/rag/vector_store.py *)

\* add_chunks: one stored entry per chunk; absent metadata keys are None
ChunkMeta(c) ==
    [content |-> c.content, source |-> c.source, user_id |-> c.user_id,
     doc_id |-> c.doc_id, page |-> c.page]

add_chunks(coll, chunks) ==
    IF chunks = <<>> THEN coll
    ELSE coll \o [i \in 1..Len(chunks) |-> ChunkMeta(chunks[i])]

\* Python truthiness of Optional[str] and Optional[List[str]]
TruthyStr(s) == s # NoneStr /\ s # ""
TruthyList(l) == l.some /\ l.val # <<>>

UserEq(user_id) == [key |-> "user_id", op |-> "$eq", vals |-> <<user_id>>]
DocEq(doc_id) == [key |-> "doc_id", op |-> "$eq", vals |-> <<doc_id>>]
DocIn(doc_ids) == [key |-> "doc_id", op |-> "$in", vals |-> doc_ids]

\* the Chroma 'where' filter of search: a conjunction of conditions, <<>> for None
DocCond(doc_ids) ==
    IF Len(doc_ids.val) = 1 THEN DocEq(doc_ids.val[1]) ELSE DocIn(doc_ids.val)

\* the filter without the user_id condition when doc_ids are given (mutant of BuildWhere)
BuildWhere_DocOnly(user_id, doc_ids) ==
    IF TruthyList(doc_ids) THEN <<DocCond(doc_ids)>>
    ELSE IF TruthyStr(user_id) THEN <<UserEq(user_id)>>
    ELSE <<>>

BuildWhere(user_id, doc_ids) ==
    IF TruthyStr(user_id) /\ TruthyList(doc_ids) THEN <<UserEq(user_id), DocCond(doc_ids)>>
    ELSE IF TruthyStr(user_id) THEN <<UserEq(user_id)>>
    ELSE IF TruthyList(doc_ids) THEN <<DocCond(doc_ids)>>
    ELSE <<>>

\* Chroma: a metadata condition holds of an entry that has the key with a matching value
CondHolds(meta, cond) ==
    LET v == meta[cond.key]
    IN  /\ v # NoneStr
        /\ cond.op = "$eq" => v = cond.vals[1]
        /\ cond.op = "$in" => v \in Range(cond.vals)

WhereHolds(meta, where) == \A i \in 1..Len(where) : CondHolds(meta, where[i])

\* collection.query: the n_results nearest entries among those the filter keeps,
\* nearest first (equal distances in insertion order); entries are named by position
RECURSIVE NearestFirst(_, _, _)
NearestFirst(coll, I, q_emb) ==
    IF I = {} THEN <<>>
    ELSE LET d(i) == Distance(q_emb, embed_text(coll[i].content))
             m == CHOOSE i \in I : \A j \in I : d(i) < d(j) \/ (d(i) = d(j) /\ i <= j)
         IN  <<m>> \o NearestFirst(coll, I \ {m}, q_emb)

\* n_results ignored: every entry the filter keeps (mutant of Query)
Query_Unlimited(coll, q_emb, n_results, where) ==
    NearestFirst(coll, {i \in 1..Len(coll) : WhereHolds(coll[i], where)}, q_emb)

Query(coll, q_emb, n_results, where) ==
    Prefix(NearestFirst(coll, {i \in 1..Len(coll) : WhereHolds(coll[i], where)}, q_emb),
           n_results)

\* score = 1 / (1 + dist), as a fraction
ScoreOf(dist) == [num |-> 1, den |-> 1 + dist]

\* a distance as the index hands it back: None, a number, or a value that
\* float() rejects
DistNone == [kind |-> "none", val |-> 0]
DistNum(d) == [kind |-> "num", val |-> d]
DistBad == [kind |-> "bad", val |-> 0]

\* the score 0.0
Zero == [num |-> 0, den |-> 1]

\* the distance used without any guard (mutant of ScoreFromDist)
ScoreFromDist_NoGuard(dist) == ScoreOf(dist.val)

\* if dist is None: 0.0; else try 1.0 / (1.0 + float(dist)) except Exception: 0.0
\* (float() raises on a bad value, the division raises when 1 + dist is 0)
ScoreFromDist(dist) ==
    IF dist.kind = "none" THEN Zero
    ELSE IF dist.kind = "bad" THEN Zero
    ELSE IF 1 + dist.val = 0 THEN Zero
    ELSE ScoreOf(dist.val)

\* the dictionary appended for one (doc, meta, dist) of the reply
ResultOf(entry, dist) ==
    [content |-> entry.content,
     source  |-> entry.source,
     score   |-> ScoreFromDist(dist),
     page    |-> entry.page,
     doc_id  |-> entry.doc_id]

\* for doc, meta, dist in zip(docs, metas, dists): results.append(...)
BuildResults(entries, dists) ==
    [k \in 1..Min(Len(entries), Len(dists)) |-> ResultOf(entries[k], dists[k])]

SearchResult(coll, i, q_emb) ==
    ResultOf(coll[i], DistNum(Distance(q_emb, embed_text(coll[i].content))))

\* VectorStore.search: hits are the stored entries returned, results
\* the dictionaries built from them, where the filter that was sent
search(coll, query, top_k, user_id, doc_ids) ==
    IF Len(coll) = 0 THEN [hits |-> <<>>, results |-> <<>>, where |-> <<>>, queried |-> FALSE]
    ELSE LET q_emb == embed_text(query)
             where == BuildWhere(user_id, doc_ids)
             hits  == Query(coll, q_emb, top_k, where)
         IN  [hits    |-> [k \in 1..Len(hits) |-> coll[hits[k]]],
              results |-> [k \in 1..Len(hits) |-> SearchResult(coll, hits[k], q_emb)],
              where   |-> where,
              queried |-> TRUE]

----------------------------------------------------------------------------
(* app/rag/retrieval_chain.py: prompts, as the parts the template is filled with *)

\* str.capitalize() on the roles the store holds
Capitalize(role) ==
    CASE role = "user"      -> "User"
      [] role = "assistant" -> "Assistant"
      [] OTHER              -> role

\* _format_history(chat_history, limit=8): the lines "<Role>: <content>"
format_history(chat_history) ==
    LET recent == Suffix(chat_history, 8)
        shown  == SelectSeq(recent, LAMBDA m : m.content # "")
    IN  [i \in 1..Len(shown) |-> [role |-> Capitalize(shown[i].role), content |-> shown[i].content]]

\* one "[Source i: source, page p]\ncontent" block
SourceBlock(i, chunk) ==
    [n        |-> i,
     source   |-> chunk.source,
     page_txt |-> IF chunk.page.some /\ chunk.page.val # 0 THEN chunk.page.val ELSE 0,
     content  |-> chunk.content]

NoContextBlock == [n |-> 0, source |-> "", page_txt |-> 0, content |-> "No relevant context found."]

build_rag_prompt(question, context_chunks, chat_history) ==
    [kind     |-> "rag",
     context  |-> IF context_chunks # <<>>
                  THEN [i \in 1..Len(context_chunks) |-> SourceBlock(i, context_chunks[i])]
                  ELSE <<NoContextBlock>>,
     history  |-> format_history(chat_history),
     question |-> question]

build_chat_prompt(question, chat_history) ==
    [kind     |-> "chat",
     context  |-> <<>>,
     history  |-> format_history(chat_history),
     question |-> question]

----------------------------------------------------------------------------
(* app/rag/pipeline.py *)

\* the characters of the questions and of the exception messages of the model
Chars(q) ==
    CASE q = "Summarize" -> <<"S", "u", "m", "m", "a", "r", "i", "z", "e">>
      [] q = "hi"        -> <<"h", "i">>
      [] q = "Connection refused" ->
             <<"C", "o", "n", "n", "e", "c", "t", "i", "o", "n", " ",
               "r", "e", "f", "u", "s", "e", "d">>
      [] q = "model not found" ->
             <<"m", "o", "d", "e", "l", " ", "n", "o", "t", " ", "f", "o", "u", "n", "d">>
      [] OTHER           -> <<>>

\* str.lower() on the characters in use
LowerChar(c) ==
    CASE c = "S" -> "s" [] c = "H" -> "h" [] c = "P" -> "p" [] c = "C" -> "c" [] OTHER -> c
Lower(cs) == [i \in 1..Len(cs) |-> LowerChar(cs[i])]

\* Python's  k in s  on strings
Contains(s, k) ==
    \E i \in 0..(Len(s) - Len(k)) : \A j \in 1..Len(k) : s[i + j] = k[j]

DOC_KEYWORDS ==
    { <<"k", "n", "o", "w", "l", "e", "d", "g", "e", " ", "b", "a", "s", "e">>,
      <<"k", "b">>,
      <<"d", "o", "c", "u", "m", "e", "n", "t">>,
      <<"d", "o", "c", "u", "m", "e", "n", "t", "s">>,
      <<"d", "o", "c", "s">>,
      <<"p", "d", "f">>,
      <<"d", "o", "c", "x">>,
      <<"t", "x", "t">>,
      <<"f", "i", "l", "e">>,
      <<"f", "i", "l", "e", "s">>,
      <<"s", "o", "u", "r", "c", "e">>,
      <<"s", "o", "u", "r", "c", "e", "s">>,
      <<"c", "o", "n", "t", "e", "x", "t">>,
      <<"u", "p", "l", "o", "a", "d", "e", "d">>,
      <<"u", "p", "l", "o", "a", "d">>,
      <<"s", "u", "m", "m", "a", "r", "i", "z", "e">>,
      <<"s", "u", "m", "m", "a", "r", "y">>,
      <<"f", "r", "o", "m", " ", "t", "h", "e", " ", "d", "o", "c", "u", "m", "e", "n", "t">>,
      <<"f", "r", "o", "m", " ", "t", "h", "i", "s", " ", "f", "i", "l", "e">>,
      <<"i", "n", " ", "t", "h", "e", " ", "f", "i", "l", "e">> }

is_doc_question(q) ==
    LET ql == Lower(Chars(q))
    IN  \E k \in DOC_KEYWORDS : Contains(ql, k)

NoDocsAnswer == "No documents uploaded for this session. Please upload a document and ask again."
NotFoundAnswer == "I searched your uploaded documents but couldn't find anything relevant."
ClarifyAnswer == "I can answer from your uploaded documents, but I couldn't confidently find the relevant section.\n\nTry one of these:\n- Ask using exact keywords from the document\n- Mention which page/section it's in\n- Or paste the paragraph you want me to use"

\* Python truthiness of a value:  v or 5  keeps v when it is truthy
Truthy(v) ==
    CASE v.type = "NoneType" -> FALSE
      [] v.type = "str"      -> v.str # ""
      [] OTHER               -> v.num # 0

\* int() of the strings in use: the integer a numeric string denotes
ParseInt(t) ==
    CASE t = "7"  -> [ok |-> TRUE, val |-> 7]
      [] t = "25" -> [ok |-> TRUE, val |-> 25]
      [] t = "-3" -> [ok |-> TRUE, val |-> -3]
      [] OTHER    -> [ok |-> FALSE, val |-> 0]

\* int(v): an int is kept, a float is truncated toward zero (inf raises), a str
\* is parsed (a non-numeric one raises), None raises; ok is FALSE when it raises
ToInt(v) ==
    CASE v.type = "int"   -> [ok |-> TRUE, val |-> v.num]
      [] v.type = "float" -> IF v.str = "inf" THEN [ok |-> FALSE, val |-> 0]
                             ELSE [ok |-> TRUE,
                                   val |-> IF v.num >= 0 THEN v.num \div 2
                                           ELSE -((-v.num) \div 2)]
      [] v.type = "str"   -> ParseInt(v.str)
      [] OTHER            -> [ok |-> FALSE, val |-> 0]

\* try: top_k = int(top_k or 5)  except Exception: top_k = 5
\* top_k = max(1, min(top_k, 20))
NormTopK(top_k) ==
    LET r == ToInt(IF Truthy(top_k) THEN top_k ELSE PyInt(5))
        t == IF r.ok THEN r.val ELSE 5
    IN  Max(1, Min(t, 20))

\* a score that float() rejects
ScoreBad == [num |-> 0, den |-> 0]

\* top_score = 0.0; if retrieved: try float(retrieved[0].get("score", 0.0))
\* except Exception: 0.0
TopScore(retrieved) ==
    IF retrieved = <<>> THEN Zero
    ELSE LET score == IF "score" \in DOMAIN retrieved[1] THEN retrieved[1].score ELSE Zero
         IN  IF score = ScoreBad THEN Zero ELSE score

\* the source dictionaries returned on the grounded path
SourcesOf(retrieved, top_k) == Prefix(retrieved, top_k)

\* auto: use RAG if strong similarity AND clearly doc-oriented (mutant of UseRag)
UseRag_And(mode, retrieved, top_score, doc_question) ==
    IF mode = "rag" THEN TRUE
    ELSE /\ (retrieved # <<>> /\ ScoreGeq(top_score, RAG_SCORE_THRESHOLD))
         /\ (retrieved # <<>> /\ doc_question)

\* the auto rule applied in every mode (mutant of UseRag)
UseRag_NeverForced(mode, retrieved, top_score, doc_question) ==
    \/ (retrieved # <<>> /\ ScoreGeq(top_score, RAG_SCORE_THRESHOLD))
    \/ (retrieved # <<>> /\ doc_question)

\* auto: use RAG if strong similarity OR clearly doc-oriented
UseRag(mode, retrieved, top_score, doc_question) ==
    IF mode = "rag" THEN TRUE
    ELSE \/ (retrieved # <<>> /\ ScoreGeq(top_score, RAG_SCORE_THRESHOLD))
         \/ (retrieved # <<>> /\ doc_question)

\* the clarification guard with the comparison inverted (mutant of Clarify)
Clarify_Inverted(mode, active_doc_ids, doc_question, retrieved, top_score) ==
    /\ mode = "auto"
    /\ TruthyList(active_doc_ids)
    /\ doc_question
    /\ (retrieved = <<>> \/ ScoreGeq(top_score, RAG_SCORE_THRESHOLD))

\* the clarification guard
Clarify(mode, active_doc_ids, doc_question, retrieved, top_score) ==
    /\ mode = "auto"
    /\ TruthyList(active_doc_ids)
    /\ doc_question
    /\ (retrieved = <<>> \/ ~ScoreGeq(top_score, RAG_SCORE_THRESHOLD))

\* retrieval placed before the chat-mode return (mutant of RetrievalRuns)
RetrievalRuns_BeforeChat(mode, active_doc_ids) == TruthyList(active_doc_ids)

\* retrieval without the active_doc_ids test (mutant of RetrievalRuns)
RetrievalRuns_Always(mode, active_doc_ids) == mode # "chat"

\* store.search is reached: the chat-mode return comes first, then the
\* active_doc_ids test
RetrievalRuns(mode, active_doc_ids) == mode # "chat" /\ TruthyList(active_doc_ids)

\* the clarification test placed before the auto fallback (mutant of Branch)
Branch_ClarifyFirst(mode, active_doc_ids, retrieved, top_score, doc_question) ==
    IF mode = "chat" THEN "chat"
    ELSE IF mode = "rag" /\ ~TruthyList(active_doc_ids) THEN "rag_no_docs"
    ELSE IF mode = "rag" /\ retrieved = <<>> THEN "rag_not_found"
    ELSE IF Clarify(mode, active_doc_ids, doc_question, retrieved, top_score) THEN "clarify"
    ELSE IF mode = "auto" /\ retrieved = <<>> THEN "auto_fallback"
    ELSE IF UseRag(mode, retrieved, top_score, doc_question) THEN "grounded"
    ELSE "plain"

\* the two forced-RAG tests swapped (mutant of Branch)
Branch_RagSwapped(mode, active_doc_ids, retrieved, top_score, doc_question) ==
    IF mode = "chat" THEN "chat"
    ELSE IF mode = "rag" /\ retrieved = <<>> THEN "rag_not_found"
    ELSE IF mode = "rag" /\ ~TruthyList(active_doc_ids) THEN "rag_no_docs"
    ELSE IF mode = "auto" /\ retrieved = <<>> THEN "auto_fallback"
    ELSE IF Clarify(mode, active_doc_ids, doc_question, retrieved, top_score) THEN "clarify"
    ELSE IF UseRag(mode, retrieved, top_score, doc_question) THEN "grounded"
    ELSE "plain"

\* the empty-retrieval test of forced RAG left out (mutant of Branch)
Branch_NoNotFound(mode, active_doc_ids, retrieved, top_score, doc_question) ==
    IF mode = "chat" THEN "chat"
    ELSE IF mode = "rag" /\ ~TruthyList(active_doc_ids) THEN "rag_no_docs"
    ELSE IF mode = "auto" /\ retrieved = <<>> THEN "auto_fallback"
    ELSE IF Clarify(mode, active_doc_ids, doc_question, retrieved, top_score) THEN "clarify"
    ELSE IF UseRag(mode, retrieved, top_score, doc_question) THEN "grounded"
    ELSE "plain"

\* use_rag tested before the clarification guard (mutant of Branch)
Branch_UseRagFirst(mode, active_doc_ids, retrieved, top_score, doc_question) ==
    IF mode = "chat" THEN "chat"
    ELSE IF mode = "rag" /\ ~TruthyList(active_doc_ids) THEN "rag_no_docs"
    ELSE IF mode = "rag" /\ retrieved = <<>> THEN "rag_not_found"
    ELSE IF mode = "auto" /\ retrieved = <<>> THEN "auto_fallback"
    ELSE IF UseRag(mode, retrieved, top_score, doc_question) THEN "grounded"
    ELSE IF Clarify(mode, active_doc_ids, doc_question, retrieved, top_score) THEN "clarify"
    ELSE "plain"

\* the return statement get_answer takes: its tests, in the order of the code
Branch(mode, active_doc_ids, retrieved, top_score, doc_question) ==
    IF mode = "chat" THEN "chat"
    ELSE IF mode = "rag" /\ ~TruthyList(active_doc_ids) THEN "rag_no_docs"
    ELSE IF mode = "rag" /\ retrieved = <<>> THEN "rag_not_found"
    ELSE IF mode = "auto" /\ retrieved = <<>> THEN "auto_fallback"
    ELSE IF Clarify(mode, active_doc_ids, doc_question, retrieved, top_score) THEN "clarify"
    ELSE IF UseRag(mode, retrieved, top_score, doc_question) THEN "grounded"
    ELSE "plain"

\* the generator called on every branch (mutant of Generates)
Generates_Always(branch) == TRUE

\* the return statements that follow a generate_response call; the three others
\* return a fixed message
Generates(branch) == branch \in {"chat", "auto_fallback", "grounded", "plain"}

\* the exchange recorded before the generator is called (mutant of Calls)
Calls_RecordFirst(searched, branch) ==
    <<"get_chat_history">>
        \o (IF searched THEN <<"search">> ELSE <<>>)
        \o <<"add_exchange">>
        \o (IF branch \in {"chat", "auto_fallback", "grounded", "plain"}
            THEN <<"generate_response">> ELSE <<>>)
        \o <<"return">>

\* the calls one get_answer call makes and its return, in the order of its
\* statements: get_chat_history; store.search under  if active_doc_ids  (after
\* the chat-mode return); generate_response on the branches that build a prompt;
\* add_exchange; return
Calls(searched, branch) ==
    <<"get_chat_history">>
        \o (IF searched THEN <<"search">> ELSE <<>>)
        \o (IF Generates(branch) THEN <<"generate_response">> ELSE <<>>)
        \o <<"add_exchange", "return">>

NoSearch == [hits |-> <<>>, results |-> <<>>, where |-> <<>>, queried |-> FALSE]

\* get_answer; out is what generate_response returns when it is called.
\* The result holds what the call returned (answer, sources), its calls of the
\* retriever (searches, with retrieved and the entries hit) and of the generator
\* (prompts), the store after add_exchange, the return statement taken, and the
\* calls made in their order.
get_answer(db, coll, question, top_k0, user_id0, mode0, active_doc_ids0, out) ==
    LET user_id == IF TruthyStr(user_id0) THEN user_id0 ELSE "anonymous"
        mode == IF mode0 \in {"auto", "rag", "chat"} THEN mode0 ELSE "auto"
        top_k == NormTopK(top_k0)
        active_doc_ids == IF TruthyList(active_doc_ids0) THEN active_doc_ids0 ELSE NoneList
        chat_history == get_chat_history(db.rows, user_id, NoneInt)
        searched == RetrievalRuns(mode, active_doc_ids)
        sr == IF searched
              THEN search(coll, question, top_k, user_id, active_doc_ids)
              ELSE NoSearch
        retrieved == sr.results
        top_score == TopScore(retrieved)
        doc_question == is_doc_question(question)
        branch == Branch(mode, active_doc_ids, retrieved, top_score, doc_question)
        answer == CASE branch = "rag_no_docs"   -> NoDocsAnswer
                    [] branch = "rag_not_found" -> NotFoundAnswer
                    [] branch = "clarify"       -> ClarifyAnswer
                    [] OTHER                    -> out
        prompts == IF ~Generates(branch) THEN <<>>
                   ELSE IF branch = "grounded"
                        THEN <<build_rag_prompt(question, retrieved, chat_history)>>
                        ELSE <<build_chat_prompt(question, chat_history)>>
    IN  [answer    |-> answer,
         sources   |-> IF branch = "grounded" THEN SourcesOf(retrieved, top_k) ELSE <<>>,
         searches  |-> IF searched
                       THEN <<[query |-> question, top_k |-> top_k, user_id |-> user_id,
                               doc_ids |-> active_doc_ids, where |-> sr.where]>>
                       ELSE <<>>,
         retrieved |-> retrieved,
         hits      |-> sr.hits,
         prompts   |-> prompts,
         db        |-> add_exchange(db, user_id, question, answer),
         user_id   |-> user_id,
         top_k     |-> top_k,
         branch    |-> branch,
         calls     |-> Calls(searched, branch)]

----------------------------------------------------------------------------
(* app/rag/llm_engine.py *)

OLLAMA_BASE_URL == "http://127.0.0.1:11434"

\* what _client.chat(...) does: it returns a response with the text, or raises an
\* exception with the message text
ClientReplies ==
    {[raised |-> FALSE, text |-> "generated answer"],
     [raised |-> TRUE,  text |-> "Connection refused"],
     [raised |-> TRUE,  text |-> "model not found"]}

\* the exception left out of the except clause (mutant of generate_response)
generate_response_Unmarked(reply) == reply.text

\* generate_response, given what the client does
generate_response(reply) ==
    IF ~reply.raised THEN reply.text
    ELSE IF Contains(Lower(Chars(reply.text)),
                     <<"c", "o", "n", "n", "e", "c", "t", "i", "o", "n">>)
         THEN "[ERROR] Cannot connect to Ollama. Make sure Ollama is running on "
                  \o OLLAMA_BASE_URL
         ELSE "[ERROR] LLM generation failed: " \o reply.text

----------------------------------------------------------------------------
(* app/rag/ingestion.py *)

\* build_chunks_for_store: one dictionary per chunk; here every page yields one
\* chunk, texts being the chunk texts of pages 1, 2, ...
build_chunks_for_store(filename, texts, user_id, doc_id) ==
    [i \in 1..Len(texts) |->
        [content |-> texts[i], source |-> filename, user_id |-> user_id,
         doc_id |-> doc_id, page |-> Some(i)]]


\* a text is a sequence of characters; " " stands for any whitespace character
TextChars == {"a", "b", " "}
IsSpace(c) == c = " "

\* str.strip(): leading and trailing whitespace removed
RECURSIVE LStrip(_)
LStrip(s) == IF s # <<>> /\ IsSpace(Head(s)) THEN LStrip(Tail(s)) ELSE s
Strip(s) == Reverse(LStrip(Reverse(LStrip(s))))

\* text[start:end] for 0 <= start <= end <= len(text)
Slice(text, start, end) == SubSeq(text, start + 1, end)

\* chunk_text is not running
ChunkerIdle ==
    [pc |-> "idle", arg |-> <<>>, chunk_size |-> 0, overlap |-> 0,
     text |-> <<>>, n |-> 0, start |-> 0, end |-> 0, chunks |-> <<>>, windows |-> <<>>]

\* chunk_text(text, chunk_size, overlap) has been called
ChunkerCalled(text, chunk_size, overlap) ==
    [ChunkerIdle EXCEPT !.pc = "call", !.arg = text, !.chunk_size = chunk_size,
                        !.overlap = overlap]

\* the first position of the next window moved back by one more (mutant of NextStart)
NextStart_Stall(end, overlap) == Max(0, end - overlap - 1)

\* the next window started one position late (mutant of NextStart)
NextStart_Skip(end, overlap) == Max(0, end - overlap + 1)

\* start = max(0, end - overlap)
NextStart(end, overlap) == Max(0, end - overlap)

\* text = (text or "").strip(); if not text: return []; chunks = []; start = 0; n = len(text)
ChunkEnter ==
    /\ chunker.pc = "call"
    /\ LET text == Strip(chunker.arg)
       IN  chunker' = IF text = <<>>
                      THEN [chunker EXCEPT !.pc = "done"]
                      ELSE [chunker EXCEPT !.pc = "loop", !.text = text, !.start = 0,
                                           !.n = Len(text)]
    /\ UNCHANGED <<collection, messages, seq, last, nAnswers, recorded, pc, txn, arg, lock,
                   committed, calc>>

\* one test of  while start < n  and, when it holds, one iteration of the body.
\* windows keeps, per iteration, the slice taken (start, end) and the positions of
\* the text (lo..hi, counted from 1) that the appended chunk holds, if one was appended
ChunkLoop ==
    /\ chunker.pc = "loop"
    /\ IF chunker.start < chunker.n
       THEN LET end    == Min(chunker.n, chunker.start + chunker.chunk_size)
                raw    == Slice(chunker.text, chunker.start, end)
                chunk  == Strip(raw)
                lo     == chunker.start + (Len(raw) - Len(LStrip(raw))) + 1
                w      == [start |-> chunker.start, end |-> end, emitted |-> chunk # <<>>,
                           lo |-> lo, hi |-> lo + Len(chunk) - 1]
                chunks == IF chunk # <<>> THEN Append(chunker.chunks, chunk)
                          ELSE chunker.chunks
            IN  chunker' = IF end >= chunker.n
                           THEN [chunker EXCEPT !.pc = "done", !.end = end, !.chunks = chunks,
                                                !.windows = Append(@, w)]
                           ELSE [chunker EXCEPT !.end = end, !.chunks = chunks,
                                                !.windows = Append(@, w),
                                                !.start = NextStart(end, chunker.overlap)]
       ELSE chunker' = [chunker EXCEPT !.pc = "done"]
    /\ UNCHANGED <<collection, messages, seq, last, nAnswers, recorded, pc, txn, arg, lock,
                   committed, calc>>

----------------------------------------------------------------------------
(* Inputs of the model *)

\* uploads (user_id, doc_id, chunk texts of pages 1, 2, ...): the documents of
\* u1, and a document of u2 whose doc_id collides with one of u1
Uploads ==
    {<<"u1", d, <<c>>>> : d \in DocIds, c \in Contents}
        \cup {<<"u1", "d2", <<"c2", "c1">>>>, <<"u2", "d1", <<"c1">>>>}
TopKs == {PyNone, PyInt(1)}
DocLists == {NoneList, Some(<<>>), Some(<<"d1">>), Some(<<"d1", "d2">>)}
\* the callers of /chat: u1, or nobody (user_id omitted)
UserArgs == {"u1", NoneStr}
\* what the generator returns
GenOutputs == {generate_response(reply) : reply \in ClientReplies}

NoCall ==
    [op |-> "none", requester |-> NoneStr, question |-> "", top_k0 |-> PyNone,
     user_id0 |-> NoneStr, mode |-> "", doc_ids |-> NoneList,
     answer |-> "", sources |-> <<>>, searches |-> <<>>, retrieved |-> <<>>,
     hits |-> <<>>, prompts |-> <<>>, user_id |-> NoneStr, top_k |-> 0,
     branch |-> "", history |-> <<>>, reply |-> [raised |-> FALSE, text |-> ""],
     calls |-> <<>>]

\* no normalisation helper has been called
NoCalc == [op |-> "none", arg |-> PyNone, args |-> <<>>, res |-> 0, results |-> <<>>]

----------------------------------------------------------------------------
(* Spec: ingestion and get_answer calls, the generator answering *)

\* the connections of the concurrent writers
Conns == {"k1", "k2"}
\* then is the assistant message add_exchange records next, "" if there is none
NoArg == [user_id |-> NoneStr, role |-> "", content |-> "", then |-> ""]

MemIdle ==
    /\ recorded = [u \in Users |-> <<>>]
    /\ pc = [c \in Conns |-> "idle"]
    /\ txn = [c \in Conns |-> [rows |-> <<>>, seq |-> 0]]
    /\ arg = [c \in Conns |-> NoArg]
    /\ lock = NoneStr
    /\ committed = <<>>

Init ==
    /\ collection = <<>>
    /\ messages = <<>>
    /\ seq = 0
    /\ last = NoCall
    /\ nAnswers = 0
    /\ MemIdle
    /\ chunker = ChunkerIdle
    /\ calc = NoCalc

\* POST /ingest: build_chunks_for_store, then add_chunks
Ingest(u, d, texts) ==
    /\ Len(collection) + Len(texts) <= MaxChunks
    /\ collection' = add_chunks(collection, build_chunks_for_store("f.txt", texts, u, d))
    /\ last' = [NoCall EXCEPT !.op = "ingest", !.requester = u]
    /\ UNCHANGED <<messages, seq, nAnswers, recorded, pc, txn, arg, lock, committed, chunker, calc>>

\* a call of VectorStore.search made for user requester, who passes his user_id or omits it
Search(requester, user_id, q, k, docs) ==
    /\ user_id \in {requester, NoneStr}
    /\ \E sr \in {search(collection, q, k, user_id, docs)} :
           last' = [NoCall EXCEPT
                      !.op = "search", !.requester = requester, !.question = q,
                      !.top_k0 = PyInt(k), !.user_id0 = user_id, !.doc_ids = docs,
                      !.searches = <<[query |-> q, top_k |-> k, user_id |-> user_id,
                                      doc_ids |-> docs, where |-> sr.where]>>,
                      !.retrieved = sr.results, !.hits = sr.hits,
                      !.user_id = user_id, !.top_k = k, !.branch = "search"]
    /\ UNCHANGED <<collection, messages, seq, nAnswers, recorded, pc, txn, arg, lock, committed, chunker, calc>>

\* POST /chat: one get_answer call, from its first line to its return; reply is
\* what the Ollama client does if generate_response is called
GetAnswer(q, top_k0, user_id0, mode, docs, reply) ==
    /\ nAnswers < MaxAnswers
    /\ \E r \in {get_answer([rows |-> messages, seq |-> seq], collection,
                           q, top_k0, user_id0, mode, docs, generate_response(reply))} :
           /\ messages' = r.db.rows
           /\ seq' = r.db.seq
           /\ last' = [NoCall EXCEPT
                         !.op = "answer", !.requester = r.user_id, !.question = q,
                         !.top_k0 = top_k0, !.user_id0 = user_id0, !.mode = mode,
                         !.doc_ids = docs, !.answer = r.answer, !.sources = r.sources,
                         !.searches = r.searches, !.retrieved = r.retrieved,
                         !.hits = r.hits, !.prompts = r.prompts, !.user_id = r.user_id,
                         !.top_k = r.top_k, !.branch = r.branch, !.calls = r.calls,
                         !.reply = IF r.prompts # <<>> THEN reply ELSE NoCall.reply,
                         !.history = get_chat_history(messages, r.user_id, NoneInt)]
    /\ nAnswers' = nAnswers + 1
    /\ UNCHANGED <<collection, recorded, pc, txn, arg, lock, committed, chunker, calc>>

Next ==
    \/ \E up \in Uploads : Ingest(up[1], up[2], up[3])
    \/ \E q \in Questions, top_k0 \in TopKs, user_id0 \in UserArgs, mode \in Modes,
          docs \in DocLists, reply \in {r \in ClientReplies : ~r.raised} :
          GetAnswer(q, top_k0, user_id0, mode, docs, reply)

Spec == Init /\ [][Next]_vars

----------------------------------------------------------------------------
(* SpecGen: ingestion and get_answer calls of one user, the generator failing or not *)

\* the uploads of u1 into document d1
UploadsGen == {up \in Uploads : up[1] = "u1" /\ up[2] = "d1"}

NextGen ==
    \/ \E up \in UploadsGen : Ingest(up[1], up[2], up[3])
    \/ \E q \in Questions, mode \in Modes, docs \in {NoneList, Some(<<"d1", "d2">>)},
          reply \in ClientReplies :
          GetAnswer(q, PyNone, "u1", mode, docs, reply)

SpecGen == Init /\ [][NextGen]_vars

----------------------------------------------------------------------------
(* SpecSearch: ingestion and direct calls of VectorStore.search *)

NextSearch ==
    \/ \E up \in Uploads : Ingest(up[1], up[2], up[3])
    \/ \E requester \in Users, user_id \in Users \cup {NoneStr}, q \in Questions,
          k \in 1..2, docs \in DocLists :
          Search(requester, user_id, q, k, docs)

SpecSearch == Init /\ [][NextSearch]_vars

----------------------------------------------------------------------------
(* SpecMemory: sequential calls of the history store *)

\* the (role, content) pairs recorded in SpecMemory
Msgs == {<<"user", "m1">>, <<"assistant", "m2">>}

\* add_message(user_id, role, content), the whole call
RecordMessage(u, role, content) ==
    /\ \E db \in {add_message([rows |-> messages, seq |-> seq], u, role, content)} :
          /\ messages' = db.rows
          /\ seq' = db.seq
    /\ recorded' = [recorded EXCEPT ![u] = Append(@, [role |-> role, content |-> content])]
    /\ last' = [NoCall EXCEPT !.op = "record", !.requester = u]
    /\ UNCHANGED <<collection, nAnswers, pc, txn, arg, lock, committed, chunker, calc>>

\* add_message calls of SpecMemory, MaxRecords of them at most
Record(u, role, content) ==
    /\ seq < MaxRecords
    /\ RecordMessage(u, role, content)

\* get_chat_history(user_id)
History(u) ==
    /\ last' = [NoCall EXCEPT !.op = "history", !.requester = u,
                              !.history = get_chat_history(messages, u, NoneInt)]
    /\ UNCHANGED <<collection, messages, seq, nAnswers, recorded, pc, txn, arg, lock, committed, chunker, calc>>

\* DELETE /memory/{user_id}: clear_history(user_id)
ClearHistory(u) ==
    /\ messages' = clear_history(messages, u)
    /\ recorded' = [recorded EXCEPT ![u] = <<>>]
    /\ last' = [NoCall EXCEPT !.op = "clear", !.requester = u]
    /\ UNCHANGED <<collection, seq, nAnswers, pc, txn, arg, lock, committed, chunker, calc>>

NextMemory ==
    \/ \E u \in Users, m \in Msgs : Record(u, m[1], m[2])
    \/ \E u \in Users : History(u)
    \/ \E u \in Users : ClearHistory(u)

SpecMemory == Init /\ [][NextMemory]_vars

----------------------------------------------------------------------------
(* SpecPartition: the writes of the messages table alone, add_message and     *)
(* clear_history, with enough add_message calls for one user to pass the cap  *)
(* while the other user has rows stored.                                      *)

\* add_message calls of SpecPartition, MaxTurns of them at most
RecordTurn(u, role) ==
    /\ seq < MaxTurns
    /\ RecordMessage(u, role, "m" \o ToString(seq + 1))

NextPartition ==
    \/ \E u \in Users, role \in {"user", "assistant"} : RecordTurn(u, role)
    \/ \E u \in Users : ClearHistory(u)

SpecPartition == Init /\ [][NextPartition]_vars

----------------------------------------------------------------------------
(* SpecConc: add_message calls running concurrently, each on its own SQLite   *)
(* connection. A connection's INSERT opens a transaction and takes the        *)
(* database's write lock; its statements work on the transaction's copy,      *)
(* which con.commit() publishes. messages is the committed table, the one     *)
(* every other connection reads.                                              *)

\* the INSERT committed on its own, before the DELETE (mutant of VisibleAfterInsert)
VisibleAfterInsert_AutoCommit(committedRows, workingRows) == workingRows

\* the rows the other connections see once a connection has run its INSERT
\* and not yet committed
VisibleAfterInsert(committedRows, workingRows) == committedRows

\* entry of add_message(user_id, role, content) on connection c
Begin(c, u, role, content) ==
    /\ pc[c] = "idle"
    /\ seq + Cardinality({k \in Conns : pc[k] # "idle"}) < MaxWrites
    /\ arg' = [arg EXCEPT ![c] = [user_id |-> u, role |-> role, content |-> content,
                                  then |-> ""]]
    /\ pc' = [pc EXCEPT ![c] = "insert"]
    /\ UNCHANGED <<collection, messages, seq, last, nAnswers, recorded, txn, lock, committed, chunker, calc>>

\* con.execute("INSERT ...") with the write lock free
Insert(c) ==
    /\ pc[c] = "insert"
    /\ lock = NoneStr
    /\ lock' = c
    /\ txn' = [txn EXCEPT ![c] =
                 [rows |-> InsertRow(messages, seq + 1, arg[c].user_id, arg[c].role, arg[c].content),
                  seq  |-> seq + 1]]
    /\ messages' = VisibleAfterInsert(messages, txn'[c].rows)
    /\ pc' = [pc EXCEPT ![c] = "delete"]
    /\ UNCHANGED <<collection, seq, last, nAnswers, recorded, arg, committed, chunker, calc>>

\* con.execute("INSERT ...") with the write lock held by another connection until
\* the busy timeout: sqlite3.OperationalError, the call ends without a row
Busy(c) ==
    /\ pc[c] = "insert"
    /\ lock # NoneStr
    /\ pc' = [pc EXCEPT ![c] = "idle"]
    /\ arg' = [arg EXCEPT ![c] = NoArg]
    /\ UNCHANGED <<collection, messages, seq, last, nAnswers, recorded, txn, lock, committed, chunker, calc>>

\* con.execute("DELETE ...") inside the transaction
Delete(c) ==
    /\ pc[c] = "delete"
    /\ txn' = [txn EXCEPT ![c].rows = TrimRows(@, arg[c].user_id)]
    /\ pc' = [pc EXCEPT ![c] = "commit"]
    /\ UNCHANGED <<collection, messages, seq, last, nAnswers, recorded, arg, lock, committed, chunker, calc>>

\* con.commit(), and the end of the with block; in add_exchange the add_message
\* of the assistant message starts after the one of the user message returned
Commit(c) ==
    /\ pc[c] = "commit"
    /\ messages' = txn[c].rows
    /\ seq' = txn[c].seq
    /\ committed' = Append(committed, [id |-> txn[c].seq, user_id |-> arg[c].user_id])
    /\ lock' = NoneStr
    /\ txn' = [txn EXCEPT ![c] = [rows |-> <<>>, seq |-> 0]]
    /\ IF arg[c].then # ""
       THEN /\ arg' = [arg EXCEPT ![c] = [user_id |-> arg[c].user_id, role |-> "assistant",
                                          content |-> arg[c].then, then |-> ""]]
            /\ pc' = [pc EXCEPT ![c] = "insert"]
       ELSE /\ arg' = [arg EXCEPT ![c] = NoArg]
            /\ pc' = [pc EXCEPT ![c] = "idle"]
    /\ UNCHANGED <<collection, last, nAnswers, recorded, chunker, calc>>

NextConc ==
    \/ \E c \in Conns, u \in Users : Begin(c, u, "user", "m1")
    \/ \E c \in Conns : Insert(c)
    \/ \E c \in Conns : Busy(c)
    \/ \E c \in Conns : Delete(c)
    \/ \E c \in Conns : Commit(c)

SpecConc == Init /\ [][NextConc]_vars

----------------------------------------------------------------------------
(* SpecExch: get_answer calls running concurrently, from the point where the  *)
(* answer is determined: each calls add_exchange(user_id, question, answer),  *)
(* that is add_message for the user message, then add_message for the         *)
(* assistant message, each in a transaction of its own.                       *)

\* the question and the answer of the n-th request
QuestionOf(n) == "q" \o ToString(n)
AnswerOf(n) == "a" \o ToString(n)

\* add_exchange(user_id, question, answer) is entered on connection c
BeginExchange(c, u) ==
    /\ pc[c] = "idle"
    /\ nAnswers < MaxExchanges
    /\ nAnswers' = nAnswers + 1
    /\ arg' = [arg EXCEPT ![c] = [user_id |-> u, role |-> "user",
                                  content |-> QuestionOf(nAnswers + 1),
                                  then |-> AnswerOf(nAnswers + 1)]]
    /\ pc' = [pc EXCEPT ![c] = "insert"]
    /\ UNCHANGED <<collection, messages, seq, last, recorded, txn, lock, committed, chunker, calc>>

NextExch ==
    \/ \E c \in Conns, u \in Users : BeginExchange(c, u)
    \/ \E c \in Conns : Insert(c)
    \/ \E c \in Conns : Busy(c)
    \/ \E c \in Conns : Delete(c)
    \/ \E c \in Conns : Commit(c)

SpecExch == Init /\ [][NextExch]_vars

----------------------------------------------------------------------------
(* SpecChunk: one chunk_text call, from its first statement to its return *)

\* the texts of at most MaxTextLen characters
Texts == UNION {[1..k -> TextChars] : k \in 0..MaxTextLen}

\* the calls chunk_text(text, chunk_size, overlap) with chunk_size > 0 and
\* 0 <= overlap < chunk_size
InitChunk ==
    /\ collection = <<>>
    /\ messages = <<>>
    /\ seq = 0
    /\ last = NoCall
    /\ nAnswers = 0
    /\ MemIdle
    /\ calc = NoCalc
    /\ \E text \in Texts, chunk_size \in 1..MaxChunkSize :
           \E overlap \in 0..(chunk_size - 1) :
               chunker = ChunkerCalled(text, chunk_size, overlap)

NextChunk ==
    \/ ChunkEnter
    \/ ChunkLoop

SpecChunk == InitChunk /\ [][NextChunk]_vars

\* the call is never suspended for ever: chunk_text runs in the thread that called it
SpecChunkFair == SpecChunk /\ WF_vars(NextChunk)

----------------------------------------------------------------------------
(* SpecCalc: calls of the normalisation helpers on arbitrary values *)

\* the float infinity
PyInf == [type |-> "float", num |-> 1, str |-> "inf"]

\* values a caller of get_answer may pass as top_k
TopKArgs ==
    {PyNone, PyInf}
        \cup {PyInt(n) : n \in -2..MaxTopKArg}
        \cup {PyStr(t) : t \in {"", "7", "25", "-3", "abc"}}
        \cup {PyFloat(h) : h \in {-3, 0, 1, 5, 41}}

\* the defensive clamp of get_answer applied to top_k
ClampTopK(top_k) ==
    /\ calc' = [NoCalc EXCEPT !.op = "top_k", !.arg = top_k, !.res = NormTopK(top_k)]
    /\ UNCHANGED <<collection, messages, seq, last, nAnswers, recorded, pc, txn, arg, lock,
                   committed, chunker>>

\* two stored entries, and the distances an index reply may hold for them
SampleEntries == add_chunks(<<>>, build_chunks_for_store("f.txt", <<"c1", "c2">>, "u1", "d1"))
RawDists == {DistNone, DistBad, DistNum(-1), DistNum(0), DistNum(1), DistNum(4)}

\* the loop of search over a reply of the index with these distances
ScoreResults(dists) ==
    /\ calc' = [NoCalc EXCEPT !.op = "score", !.args = dists,
                              !.results = BuildResults(SampleEntries, dists)]
    /\ UNCHANGED <<collection, messages, seq, last, nAnswers, recorded, pc, txn, arg, lock,
                   committed, chunker>>

\* retrieved lists whose dictionaries hold a score, a bad score, or none
RawRetrieved ==
    LET dicts == {[content |-> "c1", score |-> sc] : sc \in {ScoreBad, Zero, ScoreOf(1), ScoreOf(4)}}
                     \cup {[content |-> "c1"]}
    IN  UNION {[1..k -> dicts] : k \in 0..2}

\* the top score computation of get_answer over such a list
ComputeTopScore(retrieved) ==
    /\ calc' = [NoCalc EXCEPT !.op = "top_score", !.results = retrieved,
                              !.res = TopScore(retrieved)]
    /\ UNCHANGED <<collection, messages, seq, last, nAnswers, recorded, pc, txn, arg, lock,
                   committed, chunker>>

NextCalc ==
    \/ \E top_k \in TopKArgs : ClampTopK(top_k)
    \/ \E k \in 1..2 : \E dists \in [1..k -> RawDists] : ScoreResults(dists)
    \/ \E retrieved \in RawRetrieved : ComputeTopScore(retrieved)

SpecCalc == Init /\ [][NextCalc]_vars

----------------------------------------------------------------------------
(* Properties of get_answer, stated on the last completed call (Spec) *)

Answered == last.op = "answer"
DocsGiven == TruthyList(last.doc_ids)
NoRetrieval == last.retrieved = <<>>
StrongTop == last.retrieved # <<>> /\ ScoreGeq(last.retrieved[1].score, RAG_SCORE_THRESHOLD)
WeakTop == last.retrieved # <<>> /\ ~ScoreGeq(last.retrieved[1].score, RAG_SCORE_THRESHOLD)
Clarified == last.answer = ClarifyAnswer /\ last.sources = <<>>
\* the generator was called once, with the plain prompt, and its text is the answer
PlainGeneration ==
    /\ last.prompts = <<build_chat_prompt(last.question, last.history)>>
    /\ last.answer \in GenOutputs
    /\ last.sources = <<>>

\* C1 as stated: in auto mode with active documents and a document-style question,
\* a weak top score and an empty retrieval both give the clarification message
\* with no sources.
C1_ClarifyOnWeakOrEmpty ==
    (Answered /\ last.mode = "auto" /\ DocsGiven /\ is_doc_question(last.question)
        /\ (NoRetrieval \/ WeakTop))
    => Clarified

\* C1 amended: in auto mode with active documents and a document-style question,
\* a non-empty retrieval whose top score is below RAG_SCORE_THRESHOLD gives exactly
\* the clarification message with no sources, and the generator is not called.
C1_ClarifyOnWeak ==
    (Answered /\ last.mode = "auto" /\ DocsGiven /\ is_doc_question(last.question)
        /\ WeakTop)
    => (Clarified /\ last.prompts = <<>>)

C1_Witness ==
    /\ Answered /\ last.mode = "auto" /\ DocsGiven /\ is_doc_question(last.question)
    /\ WeakTop
    /\ Clarified

\* C2: in auto mode, when retrieval yields no chunks (no active documents, or a
\* scoped search that returns nothing), the answer is the generator's text for the
\* plain prompt and there are no sources, whatever the question.
C2_AutoEmptyIsPlain ==
    (Answered /\ last.mode = "auto" /\ NoRetrieval) => PlainGeneration

\* a document-style question, a scoped search over a non-empty collection that
\* returned nothing
C2_Witness ==
    /\ Answered /\ last.mode = "auto" /\ NoRetrieval
    /\ DocsGiven /\ last.searches # <<>> /\ collection # <<>>
    /\ is_doc_question(last.question)
    /\ PlainGeneration

\* C3: in chat mode the retriever is never called and no sources are returned.
C3_ChatNeverSearches ==
    (Answered /\ last.mode = "chat") => (last.searches = <<>> /\ last.sources = <<>>)

\* chat mode with active documents of the caller that hold a chunk of his
C3_Witness ==
    /\ Answered /\ last.mode = "chat" /\ DocsGiven
    /\ \E i \in 1..Len(collection) :
          /\ collection[i].user_id = last.user_id
          /\ collection[i].doc_id \in Range(last.doc_ids.val)
    /\ last.searches = <<>> /\ last.sources = <<>>

\* C4: in rag mode without active documents (None or an empty list) the answer is
\* the fixed "No documents uploaded ..." message, with no sources.
C4_RagWithoutDocs ==
    (Answered /\ last.mode = "rag" /\ ~DocsGiven)
    => (last.answer = NoDocsAnswer /\ last.sources = <<>>)

\* rag mode with an empty list, over a non-empty collection
C4_Witness ==
    /\ Answered /\ last.mode = "rag" /\ last.doc_ids = Some(<<>>)
    /\ collection # <<>>
    /\ last.answer = NoDocsAnswer /\ last.sources = <<>>

\* C5: in rag mode with active documents, a retrieval that returns no chunk gives
\* the fixed "I searched your uploaded documents ..." message, with no sources.
C5_RagNothingFound ==
    (Answered /\ last.mode = "rag" /\ DocsGiven /\ NoRetrieval)
    => (last.answer = NotFoundAnswer /\ last.sources = <<>>)

\* a scoped search over a non-empty collection that matched nothing
C5_Witness ==
    /\ Answered /\ last.mode = "rag" /\ DocsGiven /\ NoRetrieval
    /\ last.searches # <<>> /\ collection # <<>>
    /\ last.answer = NotFoundAnswer /\ last.sources = <<>>

\* C6: in auto mode, when the first retrieved chunk scores at least
\* RAG_SCORE_THRESHOLD, the sources are the retrieved chunks cut to the effective
\* top_k, position by position, for document-style and other questions alike.
C6_SourcesAreRetrieved ==
    (Answered /\ last.mode = "auto" /\ StrongTop)
    => /\ Len(last.sources) = Min(last.top_k, Len(last.retrieved))
       /\ \A i \in 1..Len(last.sources) : last.sources[i] = last.retrieved[i]

\* a question that is not document-style, answered with two sources
C6_Witness ==
    /\ Answered /\ last.mode = "auto" /\ StrongTop
    /\ ~is_doc_question(last.question)
    /\ Len(last.sources) = 2
    /\ last.sources = last.retrieved

----------------------------------------------------------------------------
(* Properties of VectorStore.search (SpecSearch) *)

Searched == last.op = "search"
\* the retrieval was scoped by a user_id and/or by doc_ids
Scoped == TruthyStr(last.user_id0) \/ TruthyList(last.doc_ids)

\* C7: every chunk a scoped retrieval returns belongs to the user the retrieval
\* was made for, also when its doc_id is one of the requested doc_ids.
C7_CrossUserIsolation ==
    (Searched /\ Scoped) => \A i \in 1..Len(last.hits) : last.hits[i].user_id = last.requester

----------------------------------------------------------------------------
(* Properties of the history store (SpecMemory, SpecConc) *)

\* C9: history(u) returns at most MAX_MEMORY_MESSAGES messages: the most recently
\* recorded ones of u, oldest first.
C9_HistoryIsRecentChronological ==
    last.op = "history"
    => /\ Len(last.history) <= MAX_MEMORY_MESSAGES
       /\ last.history = Suffix(recorded[last.requester], MAX_MEMORY_MESSAGES)

\* a history read after the cap was exceeded
C9_Witness ==
    /\ last.op = "history"
    /\ Len(recorded[last.requester]) > MAX_MEMORY_MESSAGES
    /\ Len(last.history) = MAX_MEMORY_MESSAGES
    /\ last.history = Suffix(recorded[last.requester], MAX_MEMORY_MESSAGES)

\* ids of the committed inserts of user u, in commit order
CommittedIds(u) ==
    LET mine == SelectSeq(committed, LAMBDA e : e.user_id = u)
    IN  [i \in 1..Len(mine) |-> mine[i].id]

\* ids of the rows of user u in the committed table
StoredIds(u) == {messages[i].id : i \in {j \in 1..Len(messages) : messages[j].user_id = u}}

\* C10: under any interleaving of concurrent add_message calls, the committed table
\* never holds more than MAX_MEMORY_MESSAGES rows of a user, and it holds exactly
\* the user's MAX_MEMORY_MESSAGES most recently inserted rows.
C10_InsertTrimAtomic ==
    \A u \in Users :
        /\ Cardinality(StoredIds(u)) <= MAX_MEMORY_MESSAGES
        /\ StoredIds(u) = Range(Suffix(CommittedIds(u), MAX_MEMORY_MESSAGES))

\* a user past the cap, one connection inside its transaction for this user and the
\* other one about to insert for the same user
C10_Witness ==
    \E u \in Users, c \in Conns, k \in Conns :
        /\ Len(CommittedIds(u)) > MAX_MEMORY_MESSAGES
        /\ pc[c] = "commit" /\ arg[c].user_id = u
        /\ pc[k] = "insert" /\ arg[k].user_id = u
        /\ Cardinality(StoredIds(u)) = MAX_MEMORY_MESSAGES

----------------------------------------------------------------------------
(* Properties of chunk_text (SpecChunk) *)

ChunkDone == chunker.pc = "done"
\* the iterations that appended a chunk
Emitted == SelectSeq(chunker.windows, LAMBDA w : w.emitted)

\* the pieces put one after the other, each without the positions the pieces
\* before it already gave; a piece that starts beyond them leaves a hole
RECURSIVE Rebuild(_, _, _)
Rebuild(text, spans, out) ==
    IF spans = <<>> THEN out
    ELSE LET w == Head(spans)
         IN  IF w.lo > Len(out) + 1
             THEN Rebuild(text, Tail(spans), out \o <<"<hole>">> \o SubSeq(text, w.lo, w.hi))
             ELSE Rebuild(text, Tail(spans), out \o SubSeq(text, Len(out) + 1, w.hi))

\* the slices text[start:end] of the iterations, as positions counted from 1
Slices == [i \in 1..Len(chunker.windows) |->
              [lo |-> chunker.windows[i].start + 1, hi |-> chunker.windows[i].end]]

\* C11: when chunk_text returns, every position of the trimmed text lies in an
\* emitted window, and the emitted windows in order rebuild the trimmed text once
\* overlapping duplicates are removed.
C11_EmittedWindowsCover ==
    ChunkDone =>
        /\ \A p \in 1..chunker.n : \E i \in 1..Len(Emitted) : Emitted[i].lo <= p /\ p <= Emitted[i].hi
        /\ Rebuild(chunker.text, Emitted, <<>>) = chunker.text

\* C11 (amended): when chunk_text returns, the slices text[start:end] it took cover
\* every position of the trimmed text and in order rebuild it; the chunks returned
\* are these slices trimmed, the empty ones left out, each of at most chunk_size
\* characters; and every non-whitespace character lies in a returned chunk.
C11_SlicesCover ==
    ChunkDone =>
        /\ \A p \in 1..chunker.n : \E i \in 1..Len(Slices) : Slices[i].lo <= p /\ p <= Slices[i].hi
        /\ Rebuild(chunker.text, Slices, <<>>) = chunker.text
        /\ chunker.chunks = [i \in 1..Len(Emitted) |->
                                SubSeq(chunker.text, Emitted[i].lo, Emitted[i].hi)]
        /\ \A i \in 1..Len(chunker.chunks) : Len(chunker.chunks[i]) <= chunker.chunk_size
        /\ \A p \in 1..chunker.n :
              ~IsSpace(chunker.text[p])
              => \E i \in 1..Len(Emitted) : Emitted[i].lo <= p /\ p <= Emitted[i].hi

\* a call with an overlap that returned several chunks and took a slice without
\* one, a whitespace character of the text being in no returned chunk
C11_Witness ==
    /\ ChunkDone
    /\ chunker.overlap > 0
    /\ Len(chunker.chunks) >= 2
    /\ Len(chunker.windows) > Len(chunker.chunks)
    /\ \E p \in 1..chunker.n :
          /\ IsSpace(chunker.text[p])
          /\ \A i \in 1..Len(Emitted) : p < Emitted[i].lo \/ p > Emitted[i].hi

----------------------------------------------------------------------------
(* Properties of the normalisation helpers (SpecCalc) *)

Clamped == calc.op = "top_k"
\* a value that is not a number and does not denote one
NonNumeric(v) == v.type = "str" /\ ~ParseInt(v.str).ok

\* C12: the normalised top_k is always in 1..20; an integer below 1 becomes 1, one
\* above 20 becomes 20, one in 1..20 is kept, and a missing or non-numeric value
\* becomes 5.
C12_TopKClamped ==
    Clamped =>
        /\ calc.res \in 1..20
        /\ (calc.arg.type = "int" /\ calc.arg.num < 1) => calc.res = 1
        /\ (calc.arg.type = "int" /\ calc.arg.num > 20) => calc.res = 20
        /\ (calc.arg.type = "int" /\ calc.arg.num \in 1..20) => calc.res = calc.arg.num
        /\ (calc.arg.type = "NoneType" \/ NonNumeric(calc.arg)) => calc.res = 5

----------------------------------------------------------------------------
(* Properties of get_answer: recording (Spec) *)

\* C13: every completed get_answer call has recorded exactly one exchange for the
\* effective user_id: the user message with the question, then the assistant
\* message with the answer that was returned.
C13_OneExchangeRecorded ==
    Answered =>
        /\ seq = 2 * nAnswers
        /\ Len(messages) >= 2
        /\ messages[Len(messages) - 1] =
               [id |-> seq - 1, user_id |-> last.user_id, role |-> "user",
                content |-> last.question]
        /\ messages[Len(messages)] =
               [id |-> seq, user_id |-> last.user_id, role |-> "assistant",
                content |-> last.answer]

\* a call without user_id that returned the fixed message of forced RAG without
\* calling the generator, and recorded it for "anonymous"
C13_Witness ==
    /\ Answered
    /\ last.branch = "rag_not_found"
    /\ last.prompts = <<>>
    /\ last.user_id0 = NoneStr
    /\ messages[Len(messages)].content = NotFoundAnswer
    /\ messages[Len(messages)].user_id = "anonymous"

----------------------------------------------------------------------------
(* Properties of get_answer: generator failures (SpecGen) *)

\* the generator was called and the client raised
GeneratorFailed == Answered /\ last.prompts # <<>> /\ last.reply.raised
\* the texts generate_response puts after the error marker
ErrorTexts ==
    {" Cannot connect to Ollama. Make sure Ollama is running on " \o OLLAMA_BASE_URL}
        \cup {" LLM generation failed: " \o reply.text : reply \in ClientReplies}

\* C14: when the client of the generator raises, get_answer still completes: the
\* answer is the string of generate_response, which begins with "[ERROR]", the
\* sources are those of the branch taken, and the exchange is recorded.
C14_GeneratorFailureIsInline ==
    GeneratorFailed =>
        /\ \E rest \in ErrorTexts : last.answer = "[ERROR]" \o rest
        /\ last.sources = IF last.branch = "grounded"
                          THEN Prefix(last.retrieved, last.top_k) ELSE <<>>
        /\ last.branch \in {"chat", "auto_fallback", "grounded", "plain"}
        /\ messages[Len(messages)].content = last.answer

\* a grounded call whose generator could not be reached: the answer is the
\* connection error and the sources are returned
C14_Witness ==
    /\ GeneratorFailed
    /\ last.branch = "grounded"
    /\ last.reply.text = "Connection refused"
    /\ last.answer = "[ERROR] Cannot connect to Ollama. Make sure Ollama is running on http://127.0.0.1:11434"
    /\ last.sources # <<>>

----------------------------------------------------------------------------
(* Properties of get_answer: the grounded prompt (Spec) *)

Grounded == Answered /\ last.branch = "grounded"

\* C15: on the grounded path the blocks "Source 1" ... "Source N" of the prompt are
\* the chunks returned as sources: as many, in the same order, block i holding
\* the source, page and content of sources[i].
C15_PromptSourcesAreSources ==
    Grounded =>
        LET context == last.prompts[1].context
        IN  /\ last.prompts[1].kind = "rag"
            /\ Len(context) = Len(last.sources)
            /\ \A i \in 1..Len(context) : context[i] = SourceBlock(i, last.sources[i])

\* a grounded call with top_k = 1 over two chunks of the user's active documents:
\* one block in the prompt, one source
C15_Witness ==
    /\ Grounded
    /\ last.top_k = 1
    /\ Len(last.sources) = 1
    /\ Cardinality({i \in 1..Len(collection) :
                       /\ collection[i].user_id = last.user_id
                       /\ collection[i].doc_id \in Range(last.doc_ids.val)}) = 2

----------------------------------------------------------------------------
(* Properties of chunk_text: termination (SpecChunkFair) *)

----------------------------------------------------------------------------
(* Properties of get_answer: the scope of retrieval (Spec) *)

\* C17: get_answer calls the retriever only with a non-empty active_doc_ids, and
\* then with the effective user_id ("anonymous" when none was given) and these
\* doc_ids, so that the filter sent to the index is the conjunction of the
\* user_id and doc_id conditions; without active_doc_ids nothing is retrieved.
C17_NoUnfilteredSearch ==
    Answered =>
        /\ last.searches # <<>> =>
              /\ TruthyList(last.doc_ids)
              /\ TruthyStr(last.searches[1].user_id)
              /\ last.searches[1].user_id =
                     (IF TruthyStr(last.user_id0) THEN last.user_id0 ELSE "anonymous")
              /\ last.searches[1].doc_ids = last.doc_ids
              /\ Len(collection) > 0 =>
                     last.searches[1].where =
                        <<UserEq(last.searches[1].user_id), DocCond(last.doc_ids)>>
        /\ ~TruthyList(last.doc_ids) => (last.searches = <<>> /\ last.retrieved = <<>>)

\* a call without user_id and with two active documents over a non-empty
\* collection: the index is queried for "anonymous" and these documents
C17_Witness ==
    /\ Answered
    /\ last.user_id0 = NoneStr
    /\ Len(collection) > 0
    /\ Len(last.searches) = 1
    /\ last.searches[1].where = <<UserEq("anonymous"), DocIn(<<"d1", "d2">>)>>

----------------------------------------------------------------------------
(* Properties of the score computations (SpecCalc) *)

\* a distance that is missing, that float() rejects, or for which
\* 1 / (1 + distance) cannot be computed
Unusable(dist) == dist.kind \in {"none", "bad"} \/ (dist.kind = "num" /\ dist.val = -1)

\* C18: in search a result with an unusable distance gets the score 0.0 and is
\* still returned, the other results of the reply being returned with their own
\* scores; and get_answer takes 0.0 as the top score when the first score cannot
\* be parsed.
C18_BadDistanceScoresZero ==
    /\ calc.op = "score" =>
          /\ Len(calc.results) = Len(calc.args)
          /\ \A k \in 1..Len(calc.args) :
                /\ calc.results[k].content = SampleEntries[k].content
                /\ calc.results[k].doc_id = SampleEntries[k].doc_id
                /\ Unusable(calc.args[k]) => calc.results[k].score = Zero
                /\ ~Unusable(calc.args[k]) => calc.results[k].score = ScoreOf(calc.args[k].val)
    /\ calc.op = "top_score" =>
          ((calc.results # <<>> /\ "score" \in DOMAIN calc.results[1]
               /\ calc.results[1].score = ScoreBad)
           => calc.res = Zero)

\* a reply whose first distance cannot be converted and whose second is 1: two
\* results, with the scores 0.0 and 1/2
C18_Witness ==
    /\ calc.op = "score"
    /\ calc.args = <<DistBad, DistNum(1)>>
    /\ Len(calc.results) = 2
    /\ calc.results[1].score = Zero
    /\ calc.results[2].score = [num |-> 1, den |-> 2]

----------------------------------------------------------------------------
(* Properties of get_answer: forced RAG (Spec) *)

\* C19: in rag mode with a non-empty retrieval the answer is generated from the
\* grounded prompt and the sources are not empty, whatever the top score and
\* whether or not the question is document-style; the clarification message is
\* never returned in rag mode.
C19_RagModeIsGrounded ==
    (Answered /\ last.mode = "rag") =>
        /\ last.answer # ClarifyAnswer
        /\ last.branch # "clarify"
        /\ last.retrieved # <<>> =>
              /\ last.branch = "grounded"
              /\ Len(last.prompts) = 1
              /\ last.prompts[1] = build_rag_prompt(last.question, last.retrieved, last.history)
              /\ last.answer = generate_response(last.reply)
              /\ last.sources # <<>>

\* a rag-mode call with a question that is not document-style and a top score
\* below the threshold: grounded all the same
C19_Witness ==
    /\ Answered
    /\ last.mode = "rag"
    /\ WeakTop
    /\ ~is_doc_question(last.question)
    /\ last.branch = "grounded"
    /\ last.sources # <<>>

----------------------------------------------------------------------------
(* Properties of get_answer: the order of its steps (Spec) *)

\* the positions of a call in the calls of the last get_answer
At(name) == {i \in 1..Len(last.calls) : last.calls[i] = name}

\* C20: one get_answer call invokes the retriever at most once and the generator
\* at most once, the retriever before the generator, and records the exchange
\* once, after the generator (when it is called) and right before it returns.
C20_StepsSequentialOnce ==
    Answered =>
        /\ Cardinality(At("search")) = Len(last.searches)
        /\ Cardinality(At("generate_response")) = Len(last.prompts)
        /\ Cardinality(At("search")) <= 1
        /\ Cardinality(At("generate_response")) <= 1
        /\ \A i \in At("search"), j \in At("generate_response") : i < j
        /\ Cardinality(At("add_exchange")) = 1
        /\ \A i \in At("generate_response"), j \in At("add_exchange") : i < j
        /\ \A i \in At("search"), j \in At("add_exchange") : i < j
        /\ At("return") = {Len(last.calls)}
        /\ At("add_exchange") = {Len(last.calls) - 1}

\* a grounded call: history read, one search, one generation, the exchange
\* recorded, return
C20_Witness ==
    /\ Grounded
    /\ last.calls = <<"get_chat_history", "search", "generate_response", "add_exchange",
                      "return">>
    /\ messages[Len(messages)].content = last.answer

----------------------------------------------------------------------------
(* Properties of clear_history (SpecMemory) *)

\* the rows of user u in the committed table
RowsOf(rows, u) == SelectSeq(rows, LAMBDA r : r.user_id = u)

\* C21: a clear_history(u) call leaves no row of u, so that the history of u is
\* empty; clearing again changes nothing, and clearing a user without rows
\* leaves the table as it was.
C21_ClearIsIdempotent ==
    [][\A u \in Users :
          (last'.op = "clear" /\ last'.requester = u) =>
              /\ RowsOf(messages', u) = <<>>
              /\ get_chat_history(messages', u, NoneInt) = <<>>
              /\ clear_history(messages', u) = messages'
              /\ RowsOf(messages, u) = <<>> => messages' = messages]_vars

\* u1 was cleared: its row with id 2 is gone, while the rows 1 and 3 of u2,
\* recorded around it, are there
C21_Witness ==
    /\ last.op = "clear"
    /\ last.requester = "u1"
    /\ seq = 3
    /\ Len(recorded["u2"]) = 2
    /\ [i \in 1..Len(messages) |-> messages[i].id] = <<1, 3>>
    /\ RowsOf(messages, "u2") = messages

----------------------------------------------------------------------------
(* Properties of get_answer: the auto decision (Spec) *)

\* C22: in auto mode with a non-empty retrieval the call is grounded (grounded
\* prompt, sources not empty) exactly when the top score reaches the threshold;
\* below it a document-style question gets the clarification message without a
\* generator call, and any other question plain generation without sources.
C22_AutoGroundedIffStrong ==
    (Answered /\ last.mode = "auto" /\ last.retrieved # <<>>) =>
        /\ last.branch = "grounded" <=> StrongTop
        /\ StrongTop =>
              /\ last.prompts = <<build_rag_prompt(last.question, last.retrieved, last.history)>>
              /\ last.sources # <<>>
        /\ (WeakTop /\ is_doc_question(last.question)) =>
              /\ Clarified
              /\ last.prompts = <<>>
        /\ (WeakTop /\ ~is_doc_question(last.question)) => PlainGeneration

\* an auto call whose question is not document-style and whose best chunk is
\* below the threshold: plain generation, no sources
C22_Witness ==
    /\ Answered /\ last.mode = "auto"
    /\ WeakTop
    /\ ~is_doc_question(last.question)
    /\ last.branch = "plain"
    /\ PlainGeneration

----------------------------------------------------------------------------
(* Properties of get_answer: calls of the generator (Spec) *)

\* the call returned one of the three fixed messages: forced RAG without active
\* documents, forced RAG with an empty retrieval, or the auto clarification
FixedMessage ==
    \/ last.mode = "rag" /\ ~DocsGiven
    \/ last.mode = "rag" /\ NoRetrieval
    \/ last.mode = "auto" /\ DocsGiven /\ WeakTop /\ is_doc_question(last.question)

\* C24: a get_answer call that returns a fixed message does not call the
\* generator; every other call calls it exactly once.
C24_GeneratorOnlyWhenNeeded ==
    Answered =>
        /\ FixedMessage =>
              /\ last.prompts = <<>>
              /\ At("generate_response") = {}
              /\ last.answer \in {NoDocsAnswer, NotFoundAnswer, ClarifyAnswer}
        /\ ~FixedMessage =>
              /\ Len(last.prompts) = 1
              /\ Cardinality(At("generate_response")) = 1
              /\ last.answer = generate_response(last.reply)

\* forced RAG without active documents over a non-empty collection: the fixed
\* message, no prompt built, no generator call
C24_Witness ==
    /\ Answered
    /\ last.mode = "rag"
    /\ ~DocsGiven
    /\ collection # <<>>
    /\ last.answer = NoDocsAnswer
    /\ last.prompts = <<>>
    /\ last.calls = <<"get_chat_history", "add_exchange", "return">>

----------------------------------------------------------------------------
(* Properties of add_exchange under concurrency (SpecExch) *)

\* C23: in the committed rows of every user, a user message that has a row after
\* it is followed by the assistant message of the same request.
C23_ExchangeStaysTogether ==
    \A u \in Users :
        LET rows == RowsOf(messages, u)
        IN  \A i \in 1..(Len(rows) - 1) :
                rows[i].role = "user" =>
                    \E n \in 1..MaxExchanges :
                        /\ rows[i].content = QuestionOf(n)
                        /\ rows[i + 1].role = "assistant"
                        /\ rows[i + 1].content = AnswerOf(n)

----------------------------------------------------------------------------
(* The messages table is partitioned by user_id (SpecPartition) *)

\* C25: add_message(u, ...), its trim included, and clear_history(u) leave the
\* stored rows of every other user_id unchanged, and the retention cap counts
\* each user's rows alone: a user's stored rows are as many as that user
\* recorded since their last clear, up to MAX_MEMORY_MESSAGES.
C25_PartitionedByUser ==
    /\ [](\A v \in Users :
            Len(RowsOf(messages, v)) = Min(Len(recorded[v]), MAX_MEMORY_MESSAGES))
    /\ [][\A u \in Users :
              (last'.op \in {"record", "clear"} /\ last'.requester = u) =>
                  \A v \in Users \ {u} : RowsOf(messages', v) = RowsOf(messages, v)]_vars

\* u1 has recorded past the cap and lost its oldest row to the trim, while the
\* row u2 recorded before all of them is still stored
C25_Witness ==
    /\ last.op = "record" /\ last.requester = "u1"
    /\ Len(recorded["u1"]) = MAX_MEMORY_MESSAGES + 1
    /\ Len(RowsOf(messages, "u1")) = MAX_MEMORY_MESSAGES
    /\ Len(messages) = MAX_MEMORY_MESSAGES + 1
    /\ messages[1].user_id = "u2" /\ messages[1].id = 1

====
